---- MODULE Spec2Model ----
(***************************************************************************)
(* State-machine model of src/flazzybird/src/components/FlappyBirdGame.tsx *)
(*                                                                         *)
(* Lengths are fixed-point numbers with Unit steps per pixel (0.1 px), so  *)
(* that GRAVITY = 0.6 and the particle gravity 0.3 are integers.  The      *)
(* rounding of IEEE doubles is not modelled.                               *)
(*                                                                         *)
(* React state.  gameState, score and highScore are the values of the last *)
(* render: the values the installed callbacks gameLoop and jump have       *)
(* closed over.  A call of a state setter does not change them; it is      *)
(* appended to `updates`, and the action Commit (React's re-render         *)
(* followed by the two effects, which install the new gameLoop and the new *)
(* handlers) applies the queue.  The mutable ref gameStateRef.current      *)
(* (bird, pipes, particles) and localStorage change at once.               *)
(***************************************************************************)
EXTENDS Integers, Sequences, FiniteSets, TLC

VARIABLES
    gameState,      \* useState 'menu' | 'playing' | 'gameOver', as rendered
    score,          \* useState score, as rendered
    highScore,      \* useState highScore, as rendered: a JS number
    updates,        \* state-setter calls not yet rendered, oldest first
    bird,           \* gameStateRef.current.bird
    pipes,          \* gameStateRef.current.pipes, oldest first
    particles,      \* gameStateRef.current.particles
    localStorage,   \* the item 'flappyBirdHighScore'
    op,             \* history: the handler that ran last
    ticks,          \* history: simulated ticks of the current run
    runs,           \* history: calls of resetGame so far
    presses,        \* history: activate events since the last tick
    stale,          \* history: handlers run since the oldest pending update
    collision,      \* history: the result of the last call of checkCollision
    mounted,        \* the component is mounted
    frames,         \* ids of the requestAnimationFrame callbacks that are pending
    gameLoopRef,    \* gameLoopRef.current: the id requested last
    frameIds        \* the number of ids requestAnimationFrame has handed out

\* the scheduling state of the frame loop
frameVars == <<mounted, frames, gameLoopRef, frameIds>>

vars == <<gameState, score, highScore, updates, bird, pipes, particles,
          localStorage, op, ticks, runs, presses, stale, collision,
          mounted, frames, gameLoopRef, frameIds>>

----------------------------------------------------------------------------
(* Bounds of the exploration *)

\* simulated ticks explored per run
MaxTicks == 305
\* calls of resetGame explored
MaxRuns == 2
\* activate events explored between two ticks
MaxPresses == 2
\* handlers that may run before a pending re-render is committed
MaxStale == 1
\* while the run goes on, the player presses only with the bird's centre in
\* [FlapLine, FlapLine + FlapWindow), in units; once a tick has ended the
\* run, the player presses wherever the bird is
FlapLine == 3300
FlapWindow == 60
\* ids of frame callbacks explored where the scheduling is modelled
MaxFrames == 45

----------------------------------------------------------------------------
(* Constants of the program *)

Unit == 10
CANVAS_WIDTH == 800 * Unit
CANVAS_HEIGHT == 600 * Unit
BIRD_SIZE == 30 * Unit
PIPE_WIDTH == 80 * Unit
PIPE_GAP == 200 * Unit
GRAVITY == (6 * Unit) \div 10
JUMP_FORCE == (0 - 12) * Unit
PIPE_SPEED == 3 * Unit

GROUND_HEIGHT == 50 * Unit
SPAWN_INTERVAL == 300 * Unit
BIRD_X == 150 * Unit
PARTICLE_LIFE == 30
PARTICLE_GRAVITY == (3 * Unit) \div 10
JUMP_PARTICLES == 5
CRASH_PARTICLES == 15

\* Math.random() in thousandths: a value of [0, 1)
RandomDraws == {0, 334, 999}
\* the draw of Math.random() for the particles: every call made for one
\* burst returns the same value
ParticleDraws == {250}

Min(a, b) == IF a < b THEN a ELSE b
Max(a, b) == IF a > b THEN a ELSE b

----------------------------------------------------------------------------
(* JS numbers and strings: highScore may be NaN *)

Num(n) == [nan |-> FALSE, val |-> n]
NaN == [nan |-> TRUE, val |-> 0]

\* a > b for an integer a and a JS number b
GreaterThan(a, b) == ~b.nan /\ a > b.val

Digits == <<"0", "1", "2", "3", "4", "5", "6", "7", "8", "9">>
IsDigit(c) == \E i \in 1..10 : Digits[i] = c
DigitValue(c) == (CHOOSE i \in 1..10 : Digits[i] = c) - 1

RECURSIVE ParseDigits(_, _, _)
\* the value of the longest run of digits of s from position i on, after acc
ParseDigits(s, i, acc) ==
    IF i > Len(s) \/ ~IsDigit(s[i]) THEN acc
    ELSE ParseDigits(s, i + 1, acc * 10 + DigitValue(s[i]))

RECURSIVE SkipSpaces(_, _)
SkipSpaces(s, i) ==
    IF i <= Len(s) /\ s[i] = " " THEN SkipSpaces(s, i + 1) ELSE i

\* parseInt(s): leading blanks, an optional sign, then decimal digits; NaN
\* when no digit follows
parseInt(s) ==
    LET i == SkipSpaces(s, 1)
        neg == i <= Len(s) /\ s[i] = "-"
        j == IF i <= Len(s) /\ s[i] \in {"-", "+"} THEN i + 1 ELSE i
    IN  IF j > Len(s) \/ ~IsDigit(s[j]) THEN NaN
        ELSE LET n == ParseDigits(s, j, 0)
             IN  Num(IF neg THEN 0 - n ELSE n)

RECURSIVE toString(_)
\* score.toString() for an integer score >= 0
toString(n) ==
    IF n < 10 THEN <<Digits[n + 1]>>
    ELSE toString(n \div 10) \o <<Digits[(n % 10) + 1]>>

Absent == [present |-> FALSE, value |-> <<>>]
Item(s) == [present |-> TRUE, value |-> s]

\* useState initialiser: saved ? parseInt(saved) : 0
InitialHighScore(saved) ==
    IF saved.present /\ saved.value # <<>> THEN parseInt(saved.value) ELSE Num(0)

\* what localStorage may hold when the component mounts
StoredItems == {Absent, Item(<<"1">>), Item(<<"x">>)}

----------------------------------------------------------------------------
(* Entities *)

InitialBird == [x |-> BIRD_X, y |-> CANVAS_HEIGHT \div 2, velocity |-> 0, rotation |-> 0]

\* one particle of addParticles, from the two draws rx, ry
NewParticle(x, y, rx, ry) ==
    [x |-> x, y |-> y,
     velocity |-> [x |-> ((rx - 500) * 8 * Unit) \div 1000,
                   y |-> ((ry - 500) * 8 * Unit) \div 1000 - 2 * Unit],
     life |-> PARTICLE_LIFE, maxLife |-> PARTICLE_LIFE]

\* addParticles(x, y, count): count particles pushed at the end
addParticles(ps, x, y, count, rx, ry) ==
    ps \o [i \in 1..count |-> NewParticle(x, y, rx, ry)]

\* generatePipe without the margin under the gap
generatePipeNoMargin(r) ==
    LET minHeight == 50 * Unit
        maxHeight == CANVAS_HEIGHT - PIPE_GAP
        topHeight == (r * (maxHeight - minHeight)) \div 1000 + minHeight
    IN  [x |-> CANVAS_WIDTH, topHeight |-> topHeight,
         bottomY |-> topHeight + PIPE_GAP, passed |-> FALSE]

\* generatePipe, from the draw r
generatePipe(r) ==
    LET minHeight == 50 * Unit
        maxHeight == CANVAS_HEIGHT - PIPE_GAP - minHeight
        topHeight == (r * (maxHeight - minHeight)) \div 1000 + minHeight
    IN  [x |-> CANVAS_WIDTH, topHeight |-> topHeight,
         bottomY |-> topHeight + PIPE_GAP, passed |-> FALSE]

\* HitsPipe with a bird that touches the edge of the gap counted as a hit
HitsPipeTouching(b, pipe) ==
    /\ b.x + BIRD_SIZE \div 2 > pipe.x
    /\ b.x - BIRD_SIZE \div 2 < pipe.x + PIPE_WIDTH
    /\ \/ b.y - BIRD_SIZE \div 2 <= pipe.topHeight
       \/ b.y + BIRD_SIZE \div 2 >= pipe.bottomY

\* the pipe test of checkCollision for one pipe
HitsPipe(b, pipe) ==
    /\ b.x + BIRD_SIZE \div 2 > pipe.x
    /\ b.x - BIRD_SIZE \div 2 < pipe.x + PIPE_WIDTH
    /\ \/ b.y - BIRD_SIZE \div 2 < pipe.topHeight
       \/ b.y + BIRD_SIZE \div 2 > pipe.bottomY

checkCollision(b, ps) ==
    IF b.y + BIRD_SIZE \div 2 >= CANVAS_HEIGHT - GROUND_HEIGHT THEN TRUE
    ELSE IF b.y - BIRD_SIZE \div 2 <= 0 THEN TRUE
    ELSE \E i \in 1..Len(ps) : HitsPipe(b, ps[i])

----------------------------------------------------------------------------
(* The steps of gameLoop *)

\* UpdateBird with the gravity subtracted
UpdateBirdRises(b) ==
    LET v == b.velocity - GRAVITY
    IN  [x |-> b.x, y |-> b.y + v, velocity |-> v,
         rotation |-> Min(Max(v * 3, (0 - 30) * Unit), 90 * Unit)]

\* UpdateBird with the position advanced before the velocity
UpdateBirdMovesFirst(b) ==
    LET v == b.velocity + GRAVITY
    IN  [x |-> b.x, y |-> b.y + b.velocity, velocity |-> v,
         rotation |-> Min(Max(v * 3, (0 - 30) * Unit), 90 * Unit)]

\* bird.velocity += GRAVITY; bird.y += bird.velocity; bird.rotation = ...
UpdateBird(b) ==
    LET v == b.velocity + GRAVITY
    IN  [x |-> b.x, y |-> b.y + v, velocity |-> v,
         rotation |-> Min(Max(v * 3, (0 - 30) * Unit), 90 * Unit)]

\* Scores on the leading edge of the pipe
ScoresLeadingEdge(pipe, b) == ~pipe.passed /\ pipe.x < b.x

\* Scores without the test of the passed flag
ScoresEveryTick(pipe, b) == pipe.x + PIPE_WIDTH < b.x

\* the scoring test of one pipe, after its advance
Scores(pipe, b) == ~pipe.passed /\ pipe.x + PIPE_WIDTH < b.x

\* OffScreen that never holds
OffScreenNever(pipe) == pipe.x + PIPE_WIDTH < 0 - CANVAS_WIDTH

\* OffScreen on the leading edge of the pipe
OffScreenLeadingEdge(pipe) == pipe.x < 0

\* the removal test of one pipe, after its advance
OffScreen(pipe) == pipe.x + PIPE_WIDTH < 0

\* splice(i, 1)
Splice(s, i) == SubSeq(s, 1, i - 1) \o SubSeq(s, i + 1, Len(s))

RECURSIVE ForwardFrom(_, _, _, _)
\* the loop over the pipes run from the first index to the last
ForwardFrom(ps, i, b, incs) ==
    IF i > Len(ps) THEN [pipes |-> ps, incs |-> incs]
    ELSE LET moved == [ps[i] EXCEPT !.x = @ - PIPE_SPEED]
             hit == ~moved.passed /\ moved.x + PIPE_WIDTH < b.x
             pipe == IF hit THEN [moved EXCEPT !.passed = TRUE] ELSE moved
             kept == [ps EXCEPT ![i] = pipe]
         IN  ForwardFrom(IF pipe.x + PIPE_WIDTH < 0 THEN Splice(kept, i) ELSE kept,
                         i + 1, b, IF hit THEN incs + 1 ELSE incs)

\* UpdatePipes as a loop `for (let i = 0; i < pipes.length; i++)`
UpdatePipesForward(ps, i, b, incs) == ForwardFrom(ps, 1, b, incs)

RECURSIVE UpdatePipes(_, _, _, _)
\* the loop `for (let i = pipes.length - 1; i >= 0; i--)`, at the 1-based
\* index i: the pipes after the loop and the number of setScore calls
UpdatePipes(ps, i, b, incs) ==
    IF i < 1 THEN [pipes |-> ps, incs |-> incs]
    ELSE LET moved == [ps[i] EXCEPT !.x = @ - PIPE_SPEED]
             hit == Scores(moved, b)
             pipe == IF hit THEN [moved EXCEPT !.passed = TRUE] ELSE moved
             kept == [ps EXCEPT ![i] = pipe]
         IN  UpdatePipes(IF OffScreen(pipe) THEN Splice(kept, i) ELSE kept,
                         i - 1, b, IF hit THEN incs + 1 ELSE incs)

\* NeedsPipe with the threshold included
NeedsPipeAtThreshold(ps) == Len(ps) = 0 \/ ps[Len(ps)].x <= CANVAS_WIDTH - SPAWN_INTERVAL

\* pipes.length === 0 || pipes[pipes.length - 1].x < CANVAS_WIDTH - 300
NeedsPipe(ps) == Len(ps) = 0 \/ ps[Len(ps)].x < CANVAS_WIDTH - SPAWN_INTERVAL

\* one particle after its update
UpdateParticle(p) ==
    [p EXCEPT !.x = @ + p.velocity.x, !.y = @ + p.velocity.y,
              !.velocity.y = @ + PARTICLE_GRAVITY, !.life = @ - 1]

\* the loop over the particles, from the last to the first: every particle is
\* updated, and spliced out when its life is used up
UpdateParticles(ps) ==
    LET moved == [i \in 1..Len(ps) |-> UpdateParticle(ps[i])]
        Alive(p) == ~(p.life <= 0)
    IN  SelectSeq(moved, Alive)

----------------------------------------------------------------------------
(* The queue of state updates *)

SetGameState(v) == [hook |-> "gameState", fn |-> "set", val |-> v]
SetScore(n) == [hook |-> "score", fn |-> "set", val |-> n]
IncScore == [hook |-> "score", fn |-> "inc", val |-> 0]
SetHighScore(n) == [hook |-> "highScore", fn |-> "set", val |-> n]

\* k calls of setScore(prev => prev + 1)
IncScores(k) == [i \in 1..k |-> IncScore]

RECURSIVE Reduce(_, _, _)
\* the value of one hook after the queued updates q from position i on
Reduce(hook, value, q) ==
    IF q = <<>> THEN value
    ELSE LET u == Head(q)
         IN  Reduce(hook,
                    IF u.hook # hook THEN value
                    ELSE IF u.fn = "inc" THEN value + 1
                    ELSE u.val,
                    Tail(q))

\* the values the next render will see
NextGameState == Reduce("gameState", gameState, updates)
NextScore == Reduce("score", score, updates)
NextHighScore == Reduce("highScore", highScore, updates)

----------------------------------------------------------------------------
(* Actions *)

Init ==
    /\ localStorage \in StoredItems
    /\ gameState = "menu"
    /\ score = 0
    /\ highScore = InitialHighScore(localStorage)
    /\ updates = <<>>
    /\ bird = InitialBird
    /\ pipes = <<>>
    /\ particles = <<>>
    /\ op = "mount"
    /\ ticks = 0
    /\ runs = 0
    /\ presses = 0
    /\ stale = 0
    /\ collision = FALSE
    /\ mounted = TRUE
    /\ frames = {1}
    /\ gameLoopRef = 1
    /\ frameIds = 1

\* a handler may run now: any pending re-render is not overdue
MayRun == updates = <<>> \/ stale < MaxStale

\* the handlers that have run on a state older than the pending updates
Staler == IF updates = <<>> THEN 0 ELSE stale + 1

\* JumpReset with a resetGame that keeps the pipes of the last run
JumpResetKeepsPipes ==
    /\ gameState \in {"menu", "gameOver"}
    /\ runs < MaxRuns
    /\ updates' = updates \o <<SetGameState("playing"), SetScore(0)>>
    /\ bird' = InitialBird
    /\ pipes' = pipes
    /\ particles' = <<>>
    /\ ticks' = 0
    /\ runs' = runs + 1

\* the 'menu' and 'gameOver' branches of jump: setGameState('playing') and
\* resetGame()
JumpReset ==
    /\ gameState \in {"menu", "gameOver"}
    /\ runs < MaxRuns
    /\ updates' = updates \o <<SetGameState("playing"), SetScore(0)>>
    /\ bird' = InitialBird
    /\ pipes' = <<>>
    /\ particles' = <<>>
    /\ ticks' = 0
    /\ runs' = runs + 1

\* the bound on when the player presses, not a condition of the code
PlayerPresses ==
    \/ NextGameState # "playing"
    \/ bird.y >= FlapLine /\ bird.y < FlapLine + FlapWindow

\* JumpFlap with the impulse added to the velocity
JumpFlapAddsImpulse ==
    /\ gameState = "playing"
    /\ PlayerPresses
    /\ \E r \in ParticleDraws :
         particles' = addParticles(particles, bird.x - BIRD_SIZE \div 2,
                                   bird.y + BIRD_SIZE \div 2, JUMP_PARTICLES, r, r)
    /\ bird' = [bird EXCEPT !.velocity = @ + JUMP_FORCE]
    /\ UNCHANGED <<updates, pipes, ticks, runs>>

\* the 'playing' branch of jump
JumpFlap ==
    /\ gameState = "playing"
    /\ PlayerPresses
    /\ \E r \in ParticleDraws :
         particles' = addParticles(particles, bird.x - BIRD_SIZE \div 2,
                                   bird.y + BIRD_SIZE \div 2, JUMP_PARTICLES, r, r)
    /\ bird' = [bird EXCEPT !.velocity = JUMP_FORCE]
    /\ UNCHANGED <<updates, pipes, ticks, runs>>

\* jump: the activate event (Space, or a click on the canvas)
Jump ==
    /\ MayRun
    /\ presses < MaxPresses
    /\ JumpReset \/ JumpFlap
    /\ presses' = presses + 1
    /\ stale' = Staler
    /\ op' = "activate"
    /\ UNCHANGED <<gameState, score, highScore, localStorage, collision>>

\* GameLoopStep with the high score overwritten at every collision
GameLoopStepAlwaysBest(b, ps, sc, hs, r) ==
    LET nb == UpdateBird(b)
        loop == UpdatePipes(ps, Len(ps), nb, 0)
        nps == IF NeedsPipe(loop.pipes)
               THEN Append(loop.pipes, generatePipe(r)) ELSE loop.pipes
        crash == checkCollision(nb, nps)
    IN  [bird |-> nb, pipes |-> nps, incs |-> loop.incs, crash |-> crash,
         best |-> crash]

\* GameLoopStep with the collision tested on the positions the tick started
\* from
GameLoopStepTestsOldPositions(b, ps, sc, hs, r) ==
    LET nb == UpdateBird(b)
        loop == UpdatePipes(ps, Len(ps), nb, 0)
        nps == IF NeedsPipe(loop.pipes)
               THEN Append(loop.pipes, generatePipe(r)) ELSE loop.pipes
        crash == checkCollision(b, ps)
    IN  [bird |-> nb, pipes |-> nps, incs |-> loop.incs, crash |-> crash,
         best |-> crash /\ GreaterThan(sc, hs)]

\* the body of `if (gameState === 'playing')` of gameLoop as a function of
\* what it reads: the ref (b, ps), the rendered sc = score and hs = highScore
\* and the draw r of generatePipe
GameLoopStep(b, ps, sc, hs, r) ==
    LET nb == UpdateBird(b)
        loop == UpdatePipes(ps, Len(ps), nb, 0)
        nps == IF NeedsPipe(loop.pipes)
               THEN Append(loop.pipes, generatePipe(r)) ELSE loop.pipes
        crash == checkCollision(nb, nps)
    IN  [bird |-> nb, pipes |-> nps, incs |-> loop.incs, crash |-> crash,
         best |-> crash /\ GreaterThan(sc, hs)]

\* gameLoop while the rendered gameState is 'playing'
Simulate ==
    /\ gameState = "playing"
    /\ ticks < MaxTicks
    /\ \E r \in RandomDraws, pr \in ParticleDraws :
         LET step == GameLoopStep(bird, pipes, score, highScore, r)
         IN  /\ bird' = step.bird
             /\ pipes' = step.pipes
             /\ collision' = step.crash
             /\ particles' =
                  UpdateParticles(
                    IF step.crash
                    THEN addParticles(particles, step.bird.x, step.bird.y,
                                      CRASH_PARTICLES, pr, pr)
                    ELSE particles)
             /\ updates' = updates \o IncScores(step.incs)
                             \o (IF step.crash THEN <<SetGameState("gameOver")>> ELSE <<>>)
                             \o (IF step.best THEN <<SetHighScore(Num(score))>> ELSE <<>>)
             /\ localStorage' = IF step.best THEN Item(toString(score)) ELSE localStorage
    /\ ticks' = ticks + 1

\* Idle with the particles left as they are
IdleFreezesParticles ==
    /\ gameState # "playing"
    /\ particles' = particles
    /\ UNCHANGED <<bird, pipes, updates, localStorage, ticks, collision>>

\* gameLoop in 'menu' and 'gameOver': only the particles move
Idle ==
    /\ gameState # "playing"
    /\ particles' = UpdateParticles(particles)
    /\ UNCHANGED <<bird, pipes, updates, localStorage, ticks, collision>>

\* gameLoop with the drawing surface at hand: what one animation frame does
\* to the game
GameLoop ==
    /\ MayRun
    /\ Simulate \/ Idle
    /\ presses' = 0
    /\ stale' = Staler
    /\ op' = "tick"
    /\ UNCHANGED <<gameState, score, highScore, runs>>

\* React's re-render: the queued updates become the state, and the
\* callbacks closing over it replace the installed ones
Render ==
    /\ updates # <<>>
    /\ gameState' = NextGameState
    /\ score' = NextScore
    /\ highScore' = NextHighScore
    /\ updates' = <<>>
    /\ stale' = 0
    /\ op' = "commit"
    /\ UNCHANGED <<bird, pipes, particles, localStorage, ticks, runs, presses,
                   collision>>

(* Spec: the game with the component mounted and the drawing surface at    *)
(* hand.  One frame callback is pending at any time (SpecFrames below      *)
(* models the ids), so the scheduling state is left as it is.              *)

Activate == Jump /\ UNCHANGED frameVars

Tick == GameLoop /\ UNCHANGED frameVars

Commit == Render /\ UNCHANGED frameVars

Next == Activate \/ Tick \/ Commit

Spec == Init /\ [][Next]_vars

----------------------------------------------------------------------------
(* checkCollision on its own: the inputs are drawn around every edge the   *)
(* predicate tests, and the one action applies it                          *)

\* y of the bird's centre: at and next to the ceiling, the edges of a gap
\* with topHeight 200 px, and the ground line
CollisionYs == {150, 151, 2149, 2150, 3000, 3850, 3851, 3860, 5349, 5350}
\* x of a pipe: at and next to the two ends of the horizontal overlap
CollisionXs == {550, 551, 1000, 1649, 1650, 4000}
CollisionTops == {500, 2000, 3499}
CollisionPipes ==
    {[x |-> x, topHeight |-> t, bottomY |-> t + PIPE_GAP, passed |-> FALSE] :
        x \in CollisionXs, t \in CollisionTops}
CollisionPipeSeqs ==
    {<<>>} \cup {<<p>> : p \in CollisionPipes}
           \cup {<<p, q>> : p \in CollisionPipes, q \in CollisionPipes}

InitCollision ==
    /\ bird \in {[InitialBird EXCEPT !.y = y] : y \in CollisionYs}
    /\ pipes \in CollisionPipeSeqs
    /\ localStorage = Absent
    /\ gameState = "playing"
    /\ score = 0
    /\ highScore = Num(0)
    /\ updates = <<>>
    /\ particles = <<>>
    /\ op = "mount"
    /\ ticks = 0
    /\ runs = 0
    /\ presses = 0
    /\ stale = 0
    /\ collision = FALSE
    /\ mounted = TRUE
    /\ frames = {1}
    /\ gameLoopRef = 1
    /\ frameIds = 1

\* one call checkCollision(bird, pipes)
ApplyCheckCollision ==
    /\ op = "mount"
    /\ collision' = checkCollision(bird, pipes)
    /\ op' = "checkCollision"
    /\ UNCHANGED <<gameState, score, highScore, updates, bird, pipes, particles,
                   localStorage, ticks, runs, presses, stale>>
    /\ UNCHANGED frameVars

NextCollision == ApplyCheckCollision

SpecCollision == InitCollision /\ [][NextCollision]_vars

----------------------------------------------------------------------------
(* The frame loop: requestAnimationFrame, cancelAnimationFrame, the effect  *)
(* that starts the loop, and unmount                                        *)

\* RescheduleFromLoop without the assignment to gameLoopRef.current
RescheduleForgetsRef(f) ==
    /\ frames' = (frames \ {f}) \cup {frameIds + 1}
    /\ gameLoopRef' = gameLoopRef
    /\ frameIds' = frameIds + 1

\* the last statement of gameLoop, run by the callback f:
\* gameLoopRef.current = requestAnimationFrame(gameLoop)
RescheduleFromLoop(f) ==
    /\ frames' = (frames \ {f}) \cup {frameIds + 1}
    /\ gameLoopRef' = frameIds + 1
    /\ frameIds' = frameIds + 1

\* a pending frame callback runs gameLoop to its end
FrameRuns ==
    /\ mounted
    /\ frameIds < MaxFrames
    /\ \E f \in frames : RescheduleFromLoop(f)
    /\ GameLoop
    /\ UNCHANGED mounted

\* a pending frame callback finds no canvas or no 2D context: gameLoop
\* returns at once
FrameSkipped ==
    /\ \E f \in frames : frames' = frames \ {f}
    /\ op' = "skip"
    /\ UNCHANGED <<gameState, score, highScore, updates, bird, pipes, particles,
                   localStorage, ticks, runs, presses, stale, collision,
                   mounted, gameLoopRef, frameIds>>

\* the next render makes a new gameLoop: one of its dependencies gameState,
\* score, highScore changes
EffectReruns ==
    <<NextGameState, NextScore, NextHighScore>> # <<gameState, score, highScore>>

\* the re-render and the effect of gameLoop: its cleanup cancels the id in
\* gameLoopRef.current, and it requests a frame for the new gameLoop
FrameCommit ==
    /\ mounted
    /\ frameIds < MaxFrames
    /\ Render
    /\ IF EffectReruns
       THEN /\ frames' = (frames \ {gameLoopRef}) \cup {frameIds + 1}
            /\ gameLoopRef' = frameIds + 1
            /\ frameIds' = frameIds + 1
       ELSE UNCHANGED <<frames, gameLoopRef, frameIds>>
    /\ UNCHANGED mounted

\* an activate event while the handlers are registered
FrameActivate == mounted /\ Jump /\ UNCHANGED frameVars

\* unmount: the cleanup of the effect cancels the id in gameLoopRef.current,
\* and the handlers are removed
Unmount ==
    /\ mounted
    /\ mounted' = FALSE
    /\ frames' = frames \ {gameLoopRef}
    /\ op' = "unmount"
    /\ UNCHANGED <<gameState, score, highScore, updates, bird, pipes, particles,
                   localStorage, ticks, runs, presses, stale, collision,
                   gameLoopRef, frameIds>>

NextFrames == FrameRuns \/ FrameSkipped \/ FrameCommit \/ FrameActivate \/ Unmount

SpecFrames == Init /\ [][NextFrames]_vars

----------------------------------------------------------------------------
(* generatePipe on its own, for every draw of 0.001 steps *)

AllDraws == 0..999

ApplyGeneratePipe ==
    /\ op = "mount"
    /\ \E r \in AllDraws : pipes' = <<generatePipe(r)>>
    /\ op' = "generatePipe"
    /\ UNCHANGED <<gameState, score, highScore, updates, bird, particles,
                   localStorage, ticks, runs, presses, stale, collision>>
    /\ UNCHANGED frameVars

NextGenerate == ApplyGeneratePipe

SpecGenerate == Init /\ [][NextGenerate]_vars

----------------------------------------------------------------------------
(* A run nobody plays: the only activate events are those that start a run, *)
(* frames keep coming and pending re-renders are committed                  *)

\* jump in 'menu' and 'gameOver'
StartRun ==
    /\ MayRun
    /\ presses < MaxPresses
    /\ JumpReset
    /\ presses' = presses + 1
    /\ stale' = Staler
    /\ op' = "activate"
    /\ UNCHANGED <<gameState, score, highScore, localStorage, collision>>
    /\ UNCHANGED frameVars

NextFall == StartRun \/ Tick \/ Commit

SpecFall == Init /\ [][NextFall]_vars /\ WF_vars(Tick) /\ WF_vars(Commit)

----------------------------------------------------------------------------
(* Properties *)

\* a step of jump, of gameLoop, of the re-render
ActivateStep == op' = "activate" /\ vars' # vars
TickStep == op' = "tick" /\ vars' # vars
CommitStep == op' = "commit" /\ vars' # vars

\* the state after resetGame
FreshRun == bird = InitialBird /\ pipes = <<>> /\ particles = <<>>

\* C1: an activate event in 'menu' or in 'gameOver' requests 'playing' and
\* score 0 and resets the bird (initial position, zero velocity), the pipes
\* and the particles; the render that enters 'playing' finds that reset state
\* with score 0; and no step takes 'menu' to 'gameOver' or 'gameOver' to
\* 'menu'.
C1_ActivateStartsRun ==
    [][/\ (ActivateStep /\ gameState \in {"menu", "gameOver"})
            => /\ NextGameState' = "playing"
               /\ NextScore' = 0
               /\ FreshRun'
               /\ bird'.y = 300 * Unit /\ bird'.velocity = 0
       /\ (gameState # "playing" /\ gameState' = "playing")
            => CommitStep /\ score' = 0 /\ FreshRun'
       /\ ~(gameState = "menu" /\ gameState' = "gameOver")
       /\ ~(gameState = "gameOver" /\ gameState' = "menu")
       /\ ~(NextGameState = "menu" /\ NextGameState' = "gameOver")
       /\ ~(NextGameState = "gameOver" /\ NextGameState' = "menu")]_vars

\* C1 witness: a run that scored has ended, and an activate event in
\* 'gameOver' has just reset the game
C1_Witness ==
    /\ op = "activate" /\ gameState = "gameOver" /\ score = 1
    /\ NextGameState = "playing" /\ NextScore = 0 /\ FreshRun

\* C2: a tick in 'playing' whose collision test is true on the positions it
\* has computed requests 'gameOver'; 'gameOver' is requested only by such a
\* tick and rendered only from such a request.
C2_CollisionEndsRun ==
    [][/\ (TickStep /\ gameState = "playing" /\ checkCollision(bird', pipes'))
            => NextGameState' = "gameOver"
       /\ (NextGameState # "gameOver" /\ NextGameState' = "gameOver")
            => TickStep /\ gameState = "playing" /\ checkCollision(bird', pipes')
       /\ (gameState # "gameOver" /\ gameState' = "gameOver")
            => CommitStep /\ gameState = "playing" /\ NextGameState = "gameOver"]_vars

\* C2 witness: a tick has ended the run against a pipe, not the ground
C2_Witness ==
    /\ op = "tick" /\ gameState = "playing" /\ NextGameState = "gameOver"
    /\ bird.y + BIRD_SIZE \div 2 < CANVAS_HEIGHT - GROUND_HEIGHT
    /\ \E i \in 1..Len(pipes) : HitsPipe(bird, pipes[i])

\* the pipes whose trailing edge goes left of the bird's x in the next tick
Crossing ==
    {i \in 1..Len(pipes) :
        /\ ~(pipes[i].x + PIPE_WIDTH < bird.x)
        /\ pipes[i].x - PIPE_SPEED + PIPE_WIDTH < bird.x}

\* C3: a tick in 'playing' adds to the score the number of pipes whose
\* trailing edge first goes left of the bird's x in it, which is at most 1;
\* a pipe is flagged passed exactly when its trailing edge is left of the
\* bird's x, and a flagged pipe stays flagged as long as it is in the
\* sequence; an activate event adds nothing to the score.
C3_ScoreOncePerPipe ==
    [][/\ (TickStep /\ gameState = "playing")
            => /\ NextScore' = NextScore + Cardinality(Crossing)
               /\ Cardinality(Crossing) <= 1
               /\ \A i \in 1..Len(pipes), j \in 1..Len(pipes') :
                    (pipes[i].passed /\ pipes'[j].x = pipes[i].x - PIPE_SPEED)
                        => pipes'[j].passed
       /\ \A j \in 1..Len(pipes') :
            pipes'[j].passed <=> (pipes'[j].x + PIPE_WIDTH < bird'.x)
       /\ ActivateStep => NextScore' \in {NextScore, 0}]_vars

\* C3 witness: the tick that has just run flagged a pipe and requested one
\* increment of the score
C3_Witness ==
    /\ op = "tick" /\ gameState = "playing" /\ NextScore = score + 1
    /\ \E i \in 1..Len(pipes) :
         pipes[i].passed /\ pipes[i].x + PIPE_WIDTH + PIPE_SPEED >= bird.x

\* C4 as claimed: in every rendered 'gameOver' state the high score is at
\* least the score of the run that has ended (stated for a numeric high score)
C4_HighScoreCoversFinalScore ==
    (gameState = "gameOver" /\ ~highScore.nan) => highScore.val >= score

\* C5: the high score, as requested and as rendered, never decreases; a new
\* value is requested only by a tick, is the rendered score and is strictly
\* greater than the value it replaces; and it is rendered while the score is
\* strictly greater than the high score it replaces.
C5_HighScoreOnlyGrows ==
    [][/\ (NextHighScore' # NextHighScore)
            => /\ TickStep
               /\ ~NextHighScore.nan /\ ~NextHighScore'.nan
               /\ NextHighScore'.val > NextHighScore.val
               /\ NextHighScore'.val = score
       /\ (highScore' # highScore)
            => /\ CommitStep
               /\ ~highScore.nan /\ ~highScore'.nan
               /\ highScore'.val > highScore.val
               /\ score > highScore.val
               /\ highScore'.val = score]_vars

\* C5 witness: a tick has requested a new high score of 1 over the rendered 0
C5_Witness ==
    op = "tick" /\ highScore = Num(0) /\ NextHighScore = Num(1) /\ score = 1

\* C6 as claimed: no pipe is at x = -1 px
C6_NoPipeAtMinusOne == \A i \in 1..Len(pipes) : pipes[i].x # (0 - 1) * Unit

\* C6 amended: a tick in 'playing' keeps every pipe whose trailing edge is
\* not left of x = 0 after the advance, and no pipe with x + PIPE_WIDTH < 0
\* is left in the sequence.
C6_RemovedWhenFullyOffScreen ==
    [][/\ (TickStep /\ gameState = "playing")
            => \A i \in 1..Len(pipes) :
                 (pipes[i].x - PIPE_SPEED + PIPE_WIDTH >= 0)
                    => \E j \in 1..Len(pipes') : pipes'[j].x = pipes[i].x - PIPE_SPEED
       /\ \A j \in 1..Len(pipes') : ~(pipes'[j].x + PIPE_WIDTH < 0)]_vars

\* C6 witness: the tick has just removed the first pipe of the run (the
\* oldest pipe left is the second one, 303 px behind x = -82 px)
C6_Witness ==
    /\ op = "tick" /\ Len(pipes) = 2
    /\ pipes[1].x = (303 - 82) * Unit /\ ~pipes[1].passed /\ NextScore = 1

\* C7: an activate event in 'playing' sets the velocity to JUMP_FORCE = -12,
\* whatever it was, appends exactly 5 particles and changes neither the
\* position of the bird, the pipes, the game state nor the score.
C7_FlapOverwritesVelocity ==
    [][(ActivateStep /\ gameState = "playing")
          => /\ bird'.velocity = (0 - 12) * Unit
             /\ bird'.x = bird.x /\ bird'.y = bird.y
             /\ pipes' = pipes
             /\ NextGameState' = NextGameState /\ gameState' = gameState
             /\ NextScore' = NextScore /\ score' = score
             /\ Len(particles') = Len(particles) + 5
             /\ SubSeq(particles', 1, Len(particles)) = particles]_vars

\* C7 witness: a second activate event in the same frame, on a bird that was
\* already rising
C7_Witness ==
    /\ op = "activate" /\ gameState = "playing" /\ presses = 2
    /\ bird.velocity = JUMP_FORCE /\ Len(particles) >= 10

\* C8: a tick in 'playing' adds GRAVITY to the velocity and then the new
\* velocity to y; from the reset state it gives velocity 0.6 and y 300.6.
C8_GravityThenMove ==
    [][(TickStep /\ gameState = "playing")
          => /\ bird'.velocity = bird.velocity + GRAVITY
             /\ bird'.y = bird.y + bird'.velocity
             /\ bird'.x = bird.x
             /\ (bird = InitialBird /\ pipes = <<>>)
                  => /\ bird'.velocity = 6 /\ bird'.y = 300 * Unit + 6
                     /\ GRAVITY = 6]_vars

\* C8 witness: the first tick of a run has been executed
C8_Witness ==
    /\ op = "tick" /\ gameState = "playing" /\ ticks = 1
    /\ bird.velocity = GRAVITY /\ bird.y = 300 * Unit + GRAVITY

\* C10: consecutive pipes are 303 px apart; a tick in 'playing' pushes a new
\* pipe at x = CANVAS_WIDTH exactly when the sequence it started from is
\* empty or its newest pipe, after the advance, is left of CANVAS_WIDTH - 300.
C10_ConstantSpacing ==
    [][/\ \A j \in 1..(Len(pipes') - 1) : pipes'[j + 1].x - pipes'[j].x = 303 * Unit
       /\ (TickStep /\ gameState = "playing")
            => ((pipes' # <<>> /\ pipes'[Len(pipes')].x = CANVAS_WIDTH)
                  <=> (\/ pipes = <<>>
                       \/ pipes[Len(pipes)].x - PIPE_SPEED < (800 - 300) * Unit))
       /\ (~TickStep \/ gameState # "playing")
            => (pipes' = pipes \/ pipes' = <<>>)]_vars

\* C10 witness: the tick has just pushed a third pipe behind two others
C10_Witness ==
    /\ op = "tick" /\ Len(pipes) = 3 /\ pipes[3].x = CANVAS_WIDTH
    /\ pipes[2].x = CANVAS_WIDTH - 303 * Unit

\* the edges of the bird (a square of 30 px around its centre)
BodyTop == bird.y - 15 * Unit
BodyBottom == bird.y + 15 * Unit
BodyLeft == bird.x - 15 * Unit
BodyRight == bird.x + 15 * Unit

\* the pipes whose horizontal span strictly overlaps the bird's
Overlapping ==
    {i \in 1..Len(pipes) :
        BodyRight > pipes[i].x /\ BodyLeft < pipes[i].x + 80 * Unit}

\* the bird's vertical span lies inside the gap of pipe i
InsideGap(i) ==
    BodyTop >= pipes[i].topHeight /\ BodyBottom <= pipes[i].topHeight + 200 * Unit

\* C9: checkCollision is true exactly when the bird's lower edge is at or
\* below the ground line (550 px), or its upper edge is at or above the
\* ceiling, or the bird is not inside the gap of an overlapping pipe; inside
\* the gaps of all overlapping pipes and clear of ground and ceiling it is
\* false, and one unit outside a gap it is true.
C9_CollisionPredicate ==
    (op = "checkCollision") =>
        /\ collision <=> (\/ BodyBottom >= (600 - 50) * Unit
                          \/ BodyTop <= 0
                          \/ \E i \in Overlapping : ~InsideGap(i))
        /\ (/\ Overlapping # {}
            /\ \A i \in Overlapping : InsideGap(i)
            /\ BodyBottom < (600 - 50) * Unit /\ BodyTop > 0) => ~collision
        /\ (\E i \in Overlapping :
               \/ BodyBottom = pipes[i].bottomY + 1
               \/ BodyTop = pipes[i].topHeight - 1) => collision

\* C9 witness: the bird touches the upper edge of the gap of an overlapping
\* pipe from inside, and checkCollision has returned false
C9_Witness ==
    /\ op = "checkCollision" /\ ~collision
    /\ \E i \in Overlapping : BodyTop = pipes[i].topHeight

C12_StartsFromStoredOrZero ==
    /\ op = "mount" =>
         highScore = (IF localStorage = Item(<<"1">>) THEN Num(1) ELSE Num(0))
    /\ (gameState = "gameOver" /\ score > 0) => ~highScore.nan

\* C13 as claimed: while the component is mounted a frame callback is
\* pending, whether or not a callback found the drawing surface
C13_LoopStaysScheduled == mounted => frames # {}

\* C14: at most one frame callback is pending, and it is the one whose id is
\* in gameLoopRef.current, so the cleanup of the effect cancels it whether the
\* loop or the effect requested it; after unmount no callback is pending, so
\* gameLoop never runs again.
C14_PendingFrameCancelled ==
    /\ Cardinality(frames) <= 1
    /\ frames \subseteq {gameLoopRef}
    /\ ~mounted => frames = {}

\* C14 witness: the component was unmounted in a run, while the frame
\* requested by the last tick was pending, and nothing is pending any more
C14_Witness ==
    /\ op = "unmount" /\ ~mounted /\ frames = {}
    /\ gameState = "playing" /\ ticks >= 2 /\ updates = <<>>

\* C15 as claimed: an activate event that fires when the game state is
\* 'gameOver', be it right after the collision tick, resets the game and
\* requests 'playing' instead of applying the impulse
C15_ActivateAfterCollisionResets ==
    [][(ActivateStep /\ NextGameState = "gameOver")
          => /\ NextGameState' = "playing" /\ FreshRun'
             /\ bird'.velocity # JUMP_FORCE]_vars

\* C16 as claimed: a tick outside 'playing' leaves the bird, the pipes, the
\* particles, the score and the high score unchanged
C16_IdleTickChangesNothing ==
    [][(TickStep /\ gameState # "playing")
          => /\ bird' = bird /\ pipes' = pipes /\ particles' = particles
             /\ NextScore' = NextScore /\ NextHighScore' = NextHighScore]_vars

\* a particle one tick later
Advanced(p) ==
    [x |-> p.x + p.velocity.x, y |-> p.y + p.velocity.y,
     velocity |-> [x |-> p.velocity.x, y |-> p.velocity.y + 3],
     life |-> p.life - 1, maxLife |-> p.maxLife]

\* the particles that outlive the next tick
Outliving == SelectSeq(particles, LAMBDA p : p.life > 1)

\* C16 (amended): a tick outside 'playing' leaves the bird, the pipes, the
\* score, the high score and the game state unchanged, and advances the
\* particles: each moves by its velocity, gains 0.3 px/tick of vertical
\* velocity and loses one tick of life, and those whose life is used up are
\* dropped; the bird and the pipes change only in ticks in 'playing' and in
\* resets.
C16_OnlyParticlesMoveOutsidePlaying ==
    [][/\ (TickStep /\ gameState # "playing")
            => /\ bird' = bird /\ pipes' = pipes
               /\ NextScore' = NextScore /\ NextHighScore' = NextHighScore
               /\ NextGameState' = NextGameState
               /\ particles' = [i \in 1..Len(Outliving) |-> Advanced(Outliving[i])]
       /\ (TickStep /\ (bird' # bird \/ pipes' # pipes)) => gameState = "playing"]_vars

\* C16 witness: in 'gameOver' a tick has advanced the particles of the
\* collision a second time
C16_Witness ==
    /\ op = "tick" /\ gameState = "gameOver" /\ particles # <<>>
    /\ particles[Len(particles)].life = PARTICLE_LIFE - 2

\* ticks between two pipes of a run: a pipe is made in the first tick and
\* then whenever the newest one is more than 300 px from the right edge
SpawnPeriod == (300 * Unit) \div (3 * Unit) + 1

\* the pipes made so far in the run, numbered from 0
Generated == {k \in 0..(MaxTicks \div SpawnPeriod + 1) : ticks >= 1 + k * SpawnPeriod}

\* where pipe k of the run is, or would be had it not been removed
PipeX(k) == 800 * Unit - 3 * Unit * (ticks - (1 + k * SpawnPeriod))

\* the pipes of the run whose trailing edge is left of the bird's x
PassedCount == Cardinality({k \in Generated : PipeX(k) + 80 * Unit < 150 * Unit})

\* the first pipe leaves the sequence in the next tick
FirstRemoved ==
    /\ Len(pipes) >= 1
    /\ \A j \in 1..Len(pipes') : pipes'[j].x # pipes[1].x - 3 * Unit

\* C17: the score requested so far is the number of pipes made in the run
\* whose trailing edge is left of the bird's x; a pipe that a tick removes was
\* flagged passed before that tick, and its removal adds nothing to the score.
C17_ScoreCountsPassedPipes ==
    [][/\ NextScore' = PassedCount'
       /\ (TickStep /\ gameState = "playing" /\ FirstRemoved)
            => pipes[1].passed /\ NextScore' = NextScore]_vars

\* C17 witness: the first pipe of the run has been removed after it was
\* counted, the two pipes left have not been passed, and the score is 1
C17_Witness ==
    /\ gameState = "playing" /\ score = 1 /\ updates = <<>>
    /\ ticks >= 295 /\ Len(pipes) >= 2
    /\ \A i \in 1..Len(pipes) : ~pipes[i].passed

\* the pipes after their advance of a tick
AdvancedPipes == [i \in 1..Len(pipes) |-> [pipes[i] EXCEPT !.x = @ - 3 * Unit]]

\* of those, the ones that are not wholly left of the screen
OnScreen == SelectSeq(AdvancedPipes, LAMBDA q : q.x + 80 * Unit >= 0)

\* C18: a tick in 'playing' removes exactly the pipes that, after their
\* advance, lie wholly left of the screen (x + 80 px < 0): the pipes it keeps
\* are the others in their order, each advanced by 3 px and flagged when its
\* trailing edge is left of the bird, and no pipe wholly left of the screen
\* is in the sequence after a tick.
C18_RemovedExactlyWhenOffScreen ==
    [][(TickStep /\ gameState = "playing")
          => /\ Len(pipes') \in {Len(OnScreen), Len(OnScreen) + 1}
             /\ \A i \in 1..Len(OnScreen) :
                  /\ pipes'[i].x = OnScreen[i].x
                  /\ pipes'[i].topHeight = OnScreen[i].topHeight
                  /\ pipes'[i].bottomY = OnScreen[i].bottomY
                  /\ pipes'[i].passed
                       = (OnScreen[i].passed \/ OnScreen[i].x + 80 * Unit < bird'.x)
             /\ \A j \in 1..Len(pipes') : pipes'[j].x + 80 * Unit >= 0]_vars

\* C18 witness: the tick that removed the first pipe of the run has advanced
\* the two pipes behind it
C18_Witness ==
    /\ op = "tick" /\ ticks = 295 /\ Len(pipes) = 2
    /\ pipes[1].x = (524 - 303) * Unit /\ pipes[2].x = 524 * Unit

\* C19: the pipes are in the order they were made, with strictly increasing
\* x, and there are never more than 3 of them.
C19_OrderedAtMostThree ==
    /\ Len(pipes) <= 3
    /\ \A i \in 1..Len(pipes), j \in 1..Len(pipes) : i < j => pipes[i].x < pipes[j].x

\* C19 witness: the fourth pipe of the run has just been made, nine ticks
\* after the first one was removed, and three pipes are in the sequence
C19_Witness ==
    /\ op = "tick" /\ ticks = 304 /\ Len(pipes) = 3
    /\ pipes[3].x = 800 * Unit /\ pipes[1].x = (800 - 2 * 303) * Unit

\* C20: in a run without activate events, while frames keep coming and the
\* re-renders are committed, 'playing' leads to 'gameOver'; the tick that
\* ends such a run finds the bird's lower edge at or below the ground line
\* (550 px) and every pipe still right of the bird.
C20_UnplayedRunEnds ==
    /\ [][(TickStep /\ NextGameState = "playing" /\ NextGameState' = "gameOver")
             => /\ bird'.y + 15 * Unit >= (600 - 50) * Unit
                /\ \A i \in 1..Len(pipes') : pipes'[i].x > bird'.x + 15 * Unit]_vars
    /\ (gameState = "playing") ~> (gameState = "gameOver")

\* C20 witness: a run nobody played has ended on the ground in its 28th tick
C20_Witness ==
    /\ gameState = "gameOver" /\ ticks = 28 /\ runs = 1
    /\ bird.velocity = 28 * 6 /\ bird.y + 15 * Unit >= (600 - 50) * Unit
    /\ Len(pipes) = 1

====
